---- MODULE Spec2Model ----
(***************************************************************************)
(* Model of backend/core/story_generator.py: StoryGenerator.generate_story *)
(* (the document repair loop, lines 47-143, and the persistence tail,      *)
(* lines 149-168) and StoryGenerator._process_story_node (the recursive    *)
(* tree materializer, lines 171-250).                                      *)
(*                                                                         *)
(* The language model behind llm.invoke is the environment: every call     *)
(* either raises (a transport failure) or returns a text.  A returned text *)
(* is described by what the code does with it: whether parser.parse        *)
(* accepts it, and the document it decodes to.                             *)
(***************************************************************************)
EXTENDS Integers, Sequences, FiniteSets, TLC

\* StoryGenerator.MAX_RETRIES
MAX_RETRIES == 3

\* Bound of the documents the environment may return: their number of nodes.
MaxNodes == 5

VARIABLES
    pc,               \* position in generate_story / _process_story_node
    attempt,          \* the loop variable of `for attempt in range(MAX_RETRIES)`
    last_error,       \* local last_error of generate_story
    response_text,    \* local response_text of generate_story
    story_structure,  \* local story_structure of generate_story
    calls,            \* history of llm.invoke calls, in order
    errors,           \* history of the exceptions caught by generate_story
    raised,           \* the exception that left generate_story, if any
    story_rows,       \* rows of Story flushed through db
    node_rows,        \* rows of StoryNode flushed through db (index = id)
    writes,           \* history of the flushes and commits issued on db
    committed,        \* number of db.commit() calls
    stack,            \* activation records of _process_story_node
    arg,              \* node_data / is_root of the call being entered
    entered,          \* history: the arguments each StoryNode row was built from
    repair_text       \* local repair_text of _process_story_node

vars == <<pc, attempt, last_error, response_text, story_structure, calls,
          errors, raised, story_rows, node_rows, writes, committed, stack,
          arg, entered, repair_text>>

loopVars == <<attempt, last_error, response_text, story_structure, errors>>
dbVars == <<story_rows, node_rows, writes, committed>>
matVars == <<stack, arg, entered, repair_text>>

----------------------------------------------------------------------------
(* Documents: StoryLLMResponse / StoryNodeLLM values as the code reads them *)

\* node content: which text produced it ("doc" or a node repair, "fix") and
\* the position of the node in the tree (the option indices from the root)
Content(o, p) == [o |-> o, p |-> p]

\* a node dict; valid = StoryNodeLLM.model_validate accepts it
Node(o, p, e, w, v, opts) ==
    [content |-> Content(o, p), isEnding |-> e, isWinningEnding |-> w,
     valid |-> v, options |-> opts]

\* a dict that StoryNodeLLM.model_validate rejects
Broken(o, p) == Node(o, p, FALSE, FALSE, FALSE, <<>>)

DefaultLeaf(o, p) == Node(o, p, TRUE, p # <<>> /\ p[Len(p)] = 1, TRUE, <<>>)

Option(o, p, i, child) == [text |-> Content(o, Append(p, i)), nextNode |-> child]

RECURSIVE NodeCount(_), CountFrom(_, _)
\* the number of nodes of the tree under n, n included
NodeCount(n) == 1 + CountFrom(n.options, 1)
CountFrom(opts, i) ==
    IF i > Len(opts) THEN 0
    ELSE NodeCount(opts[i].nextNode) + CountFrom(opts, i + 1)

RECURSIVE Shapes(_, _, _), Forests(_, _, _, _)
\* the well-typed trees of at most k nodes at position p: every leaf an
\* ending, every other node a non-ending node with one option per child
Shapes(o, p, k) ==
    {DefaultLeaf(o, p)}
    \cup {Node(o, p, FALSE, FALSE, TRUE, kids) :
            kids \in Forests(o, p, 1, k - 1) \ {<<>>}}
\* the option sequences of node p from index i on, of at most k nodes in all
Forests(o, p, i, k) ==
    {<<>>}
    \cup (IF k = 0 THEN {}
          ELSE UNION {{<<Option(o, p, i, t)>> \o f :
                         f \in Forests(o, p, i + 1, k - NodeCount(t))} :
                      t \in Shapes(o, Append(p, i), k)})

RECURSIVE Paths(_)
\* the positions of the nodes of the tree under n, relative to n
Paths(n) ==
    {<<>>} \cup UNION {{<<i>> \o q : q \in Paths(n.options[i].nextNode)} :
                       i \in 1..Len(n.options)}

RECURSIVE At(_, _)
At(n, q) == IF q = <<>> THEN n ELSE At(n.options[Head(q)].nextNode, Tail(q))

\* one node made to deviate: a leaf that fails validation ("broken"), a leaf
\* that is not an ending ("open"), a node with options marked as an ending
\* ("closed", "won"), also with a first child that fails validation ("sealed")
Deviant(n, kind) ==
    CASE kind = "broken" -> [n EXCEPT !.valid = FALSE, !.isEnding = FALSE,
                                      !.isWinningEnding = FALSE]
      [] kind = "open"   -> [n EXCEPT !.isEnding = FALSE, !.isWinningEnding = FALSE]
      [] kind = "closed" -> [n EXCEPT !.isEnding = TRUE]
      [] kind = "won"    -> [n EXCEPT !.isEnding = TRUE, !.isWinningEnding = TRUE]
      [] kind = "sealed" -> [n EXCEPT !.isEnding = TRUE,
                                      !.options[1].nextNode =
                                          Broken(@.content.o, @.content.p)]

RECURSIVE Alter(_, _, _)
Alter(n, q, kind) ==
    IF q = <<>> THEN Deviant(n, kind)
    ELSE [n EXCEPT !.options[Head(q)].nextNode = Alter(@, Tail(q), kind)]

\* the documents drawn: the trees of at most MaxNodes nodes, as they are or
\* with one deviating node
Variants(n) ==
    {n}
    \cup {Alter(n, q, kind) :
            q \in {q \in Paths(n) : At(n, q).options = <<>>},
            kind \in {"broken", "open"}}
    \cup {Alter(n, q, kind) :
            q \in {q \in Paths(n) : At(n, q).options # <<>>},
            kind \in {"closed", "won", "sealed"}}

Trees(o, p, k) == UNION {Variants(n) : n \in Shapes(o, p, k)}

\* the node contract of the schema (NodeSpec): the dict validates, an ending
\* has no options and any other node has 2 or 3
NodeSpecValid(n) ==
    /\ n.valid
    /\ IF n.isEnding THEN n.options = <<>> ELSE Len(n.options) \in 2..3

Document(root) == [title |-> "title", rootNode |-> root]

Docs == {Document(r) : r \in Trees("doc", <<>>, MaxNodes)}

NoDoc == Document(Broken("doc", <<>>))

\* the texts llm.invoke can return to the call numbered id
Responses(id) ==
    {[id |-> id, parsed |-> FALSE, doc |-> NoDoc]}
    \cup {[id |-> id, parsed |-> TRUE, doc |-> d] : d \in Docs}

\* the texts llm.invoke can return to a call whose text the code never
\* reads (line 136): one of each kind
UnreadResponses(id) ==
    {[id |-> id, parsed |-> FALSE, doc |-> NoDoc],
     [id |-> id, parsed |-> TRUE, doc |-> NoDoc],
     [id |-> id, parsed |-> TRUE, doc |-> Document(DefaultLeaf("doc", <<>>))]}

NoResponse == [id |-> 0, parsed |-> FALSE, doc |-> NoDoc]

\* the nodes a node repair of the dict `broken` can decode to: an ending, or
\* (when the dict came with the document) a node with two options, the second
\* child an ending or again a dict that fails validation
RepairTrees(broken) ==
    LET p == broken.content.p
        two == Node("fix", p, FALSE, FALSE, TRUE,
                    <<Option("fix", p, 1, DefaultLeaf("fix", Append(p, 1))),
                      Option("fix", p, 2, DefaultLeaf("fix", Append(p, 2)))>>)
    IN  {DefaultLeaf("fix", p)}
        \cup (IF broken.content.o = "doc"
              THEN {two, Alter(two, <<2>>, "broken")}
              ELSE {})

\* the texts llm.invoke can return to a node repair of the dict `broken`
NodeResponses(id, broken) ==
    {[id |-> id, parsed |-> FALSE, node |-> broken]}
    \cup {[id |-> id, parsed |-> TRUE, node |-> n] : n \in RepairTrees(broken)}

NoNodeResponse == [id |-> 0, parsed |-> FALSE, node |-> Broken("fix", <<>>)]

----------------------------------------------------------------------------
(* Exceptions and prompts *)

Error(kind, a, c) == [kind |-> kind, attempt |-> a, call |-> c]
NoError == Error("none", -1, 0)

\* a system prompt: which template, the error text, the raw text it quotes
\* and the node dict it quotes
NoContent == Content("none", <<>>)
Prompt(kind, err, prev, node) ==
    [kind |-> kind, error |-> err, previous |-> prev, node |-> node]

\* lines 43, 48-51
full_system_prompt == Prompt("original", NoError, 0, NoContent)
\* lines 66-82: quotes str(ve) and response_text
root_repair_prompt(ve, text) == Prompt("root_repair", ve, text.id, NoContent)
\* lines 110-128: quotes str(e) only
doc_repair_prompt(e, text) == Prompt("doc_repair", e, 0, NoContent)
\* lines 205-217: quotes next_node_data only
node_repair_prompt(next_node_data) ==
    Prompt("node_repair", NoError, 0, next_node_data.content)

\* what came back from a call: "transport" (llm.invoke raised), how the code
\* judged the returned text, or "unread" when the code never parses it
ResultOf(text) ==
    IF ~text.parsed THEN "unparsable"
    ELSE IF text.doc.rootNode.valid THEN "valid" ELSE "bad_root"
NodeResultOf(text) == IF text.parsed THEN "valid" ELSE "unparsable"

Call(site, a, prompt, result) ==
    [site |-> site, attempt |-> a, prompt |-> prompt, result |-> result]

NextCall == Len(calls) + 1

Raise(type, ctx) == [type |-> type, context |-> ctx]
NoRaise == Raise("none", NoError)

\* the loop runs once more than range(MAX_RETRIES) allows
LoopContinuesOffByOne(a) == a <= MAX_RETRIES

\* line 47: range(MAX_RETRIES) yields another attempt
LoopContinues(a) == a < MAX_RETRIES

\* lines 59-61 / 95-97: the root node check
RootCheckPasses(doc) == doc.rootNode.valid

----------------------------------------------------------------------------
Init ==
    /\ pc = "loop"
    /\ attempt = 0
    /\ last_error = NoError
    /\ response_text = NoResponse
    /\ story_structure = NoDoc
    /\ calls = <<>>
    /\ errors = <<>>
    /\ raised = NoRaise
    /\ story_rows = <<>>
    /\ node_rows = <<>>
    /\ writes = <<>>
    /\ committed = 0
    /\ stack = <<>>
    /\ arg = [node_data |-> Broken("doc", <<>>), is_root |-> FALSE]
    /\ entered = <<>>
    /\ repair_text = NoNodeResponse

----------------------------------------------------------------------------
(* generate_story: the document repair loop *)

\* lines 47-53: the call that opens an attempt; a failure of llm.invoke is
\* outside every try block and leaves generate_story
AttemptInvoke ==
    /\ pc = "loop"
    /\ LoopContinues(attempt)
    /\ \/ /\ calls' = Append(calls, Call(52, attempt, full_system_prompt, "transport"))
          /\ raised' = Raise("transport", Error("transport", attempt, NextCall))
          /\ pc' = "raised"
          /\ UNCHANGED response_text
       \/ /\ response_text' \in Responses(NextCall)
          /\ calls' = Append(calls, Call(52, attempt, full_system_prompt, ResultOf(response_text')))
          /\ pc' = "parse"
          /\ UNCHANGED raised
    /\ UNCHANGED <<attempt, last_error, story_structure, errors>>
    /\ UNCHANGED <<dbVars, matVars>>

\* lines 139-143: the else clause of the for loop
BudgetExhausted ==
    /\ pc = "loop"
    /\ ~LoopContinues(attempt)
    /\ raised' = Raise("exhausted", last_error)
    /\ pc' = "raised"
    /\ UNCHANGED <<calls, loopVars, dbVars, matVars>>

\* lines 149-154 moved into the loop: the Story row is inserted as soon as a
\* text parses, before the root node check
ParseInsertingStory ==
    /\ pc = "parse"
    /\ IF ~response_text.parsed
       THEN /\ last_error' = Error("parse", attempt, response_text.id)
            /\ errors' = Append(errors, last_error')
            /\ pc' = "doc_repair"
            /\ UNCHANGED <<story_structure, story_rows, writes>>
       ELSE /\ story_structure' = response_text.doc
            /\ story_rows' = Append(story_rows,
                                    [id |-> Len(story_rows) + 1,
                                     title |-> response_text.doc.title,
                                     session_id |-> "session"])
            /\ writes' = Append(writes, [op |-> "insert_story",
                                         id |-> Len(story_rows) + 1])
            /\ IF RootCheckPasses(response_text.doc)
               THEN /\ pc' = "persist"
                    /\ UNCHANGED <<last_error, errors>>
               ELSE /\ last_error' = Error("root", attempt, response_text.id)
                    /\ errors' = Append(errors, last_error')
                    /\ pc' = "root_repair"
    /\ UNCHANGED <<attempt, response_text, calls, raised>>
    /\ UNCHANGED <<node_rows, committed, matVars>>

\* lines 55-63, 103-107: parser.parse and the root node check
Parse ==
    /\ pc = "parse"
    /\ IF ~response_text.parsed
       THEN \* line 106-107
            /\ last_error' = Error("parse", attempt, response_text.id)
            /\ errors' = Append(errors, last_error')
            /\ pc' = "doc_repair"
            /\ UNCHANGED story_structure
       ELSE /\ story_structure' = response_text.doc
            /\ IF RootCheckPasses(response_text.doc)
               THEN \* line 104
                    /\ pc' = "persist"
                    /\ UNCHANGED <<last_error, errors>>
               ELSE \* lines 62-63
                    /\ last_error' = Error("root", attempt, response_text.id)
                    /\ errors' = Append(errors, last_error')
                    /\ pc' = "root_repair"
    /\ UNCHANGED <<attempt, response_text, calls, raised>>
    /\ UNCHANGED <<dbVars, matVars>>

\* lines 66-90: the inline root repair call; a failure of llm.invoke is
\* inside the try of line 55 and is caught at line 106
RootRepairInvoke ==
    /\ pc = "root_repair"
    /\ LET prompt == root_repair_prompt(last_error, response_text) IN
       \/ /\ calls' = Append(calls, Call(89, attempt, prompt, "transport"))
          /\ last_error' = Error("transport", attempt, NextCall)
          /\ errors' = Append(errors, last_error')
          /\ pc' = "doc_repair"
          /\ UNCHANGED response_text
       \/ /\ response_text' \in Responses(NextCall)
          /\ calls' = Append(calls, Call(89, attempt, prompt, ResultOf(response_text')))
          /\ pc' = "root_reparse"
          /\ UNCHANGED <<last_error, errors>>
    /\ UNCHANGED <<attempt, story_structure, raised>>
    /\ UNCHANGED <<dbVars, matVars>>

\* line 100 missing: the second error is not kept in last_error
RootReparseKeepingError ==
    /\ pc = "root_reparse"
    /\ IF response_text.parsed /\ RootCheckPasses(response_text.doc)
       THEN \* lines 93-98
            /\ story_structure' = response_text.doc
            /\ pc' = "persist"
            /\ UNCHANGED <<attempt, last_error, errors>>
       ELSE \* lines 99-101
            /\ story_structure' =
                 IF response_text.parsed THEN response_text.doc ELSE story_structure
            /\ UNCHANGED last_error
            /\ errors' = Append(errors,
                                Error(IF response_text.parsed THEN "root" ELSE "parse",
                                      attempt, response_text.id))
            /\ attempt' = attempt + 1
            /\ pc' = "loop"
    /\ UNCHANGED <<response_text, calls, raised>>
    /\ UNCHANGED <<dbVars, matVars>>

\* line 92 missing: the loop is left with the document of line 56
RootReparseAcceptingOriginal ==
    /\ pc = "root_reparse"
    /\ IF response_text.parsed /\ RootCheckPasses(response_text.doc)
       THEN /\ pc' = "persist"
            /\ UNCHANGED <<story_structure, attempt, last_error, errors>>
       ELSE /\ UNCHANGED story_structure
            /\ last_error' = Error(IF response_text.parsed THEN "root" ELSE "parse",
                                   attempt, response_text.id)
            /\ errors' = Append(errors, last_error')
            /\ attempt' = attempt + 1
            /\ pc' = "loop"
    /\ UNCHANGED <<response_text, calls, raised>>
    /\ UNCHANGED <<dbVars, matVars>>

\* lines 92-101: parse and check the repaired document
RootReparse ==
    /\ pc = "root_reparse"
    /\ IF response_text.parsed /\ RootCheckPasses(response_text.doc)
       THEN \* lines 93-98
            /\ story_structure' = response_text.doc
            /\ pc' = "persist"
            /\ UNCHANGED <<attempt, last_error, errors>>
       ELSE \* lines 99-101
            /\ story_structure' =
                 IF response_text.parsed THEN response_text.doc ELSE story_structure
            /\ last_error' = Error(IF response_text.parsed THEN "root" ELSE "parse",
                                   attempt, response_text.id)
            /\ errors' = Append(errors, last_error')
            /\ attempt' = attempt + 1
            /\ pc' = "loop"
    /\ UNCHANGED <<response_text, calls, raised>>
    /\ UNCHANGED <<dbVars, matVars>>

\* lines 110-137: the document repair call, the last statement of the loop
\* body; a failure of llm.invoke is inside an except clause and leaves
\* generate_story
DocRepairInvoke ==
    /\ pc = "doc_repair"
    /\ LET prompt == doc_repair_prompt(last_error, response_text) IN
       \/ /\ calls' = Append(calls, Call(136, attempt, prompt, "transport"))
          /\ raised' = Raise("transport", Error("transport", attempt, NextCall))
          /\ pc' = "raised"
          /\ UNCHANGED <<attempt, response_text>>
       \/ /\ response_text' \in UnreadResponses(NextCall)
          /\ calls' = Append(calls, Call(136, attempt, prompt, "unread"))
          /\ attempt' = attempt + 1
          /\ pc' = "loop"
          /\ UNCHANGED raised
    /\ UNCHANGED <<last_error, story_structure, errors>>
    /\ UNCHANGED <<dbVars, matVars>>

----------------------------------------------------------------------------
(* generate_story: persistence, and _process_story_node *)

StoryRow(id, title) == [id |-> id, title |-> title, session_id |-> "session"]

\* is_winning_ending copied from the wrong field
NodeRowWrongFlag(id, story_id, node_data, is_root) ==
    [id |-> id,
     story_id |-> story_id,
     content |-> node_data.content,
     is_root |-> is_root,
     is_ending |-> node_data.isEnding,
     is_winning_ending |-> node_data.isEnding,
     options |-> <<>>]

\* lines 179-186: the StoryNode built from node_data
NodeRow(id, story_id, node_data, is_root) ==
    [id |-> id,
     story_id |-> story_id,
     content |-> node_data.content,
     is_root |-> is_root,
     is_ending |-> node_data.isEnding,
     is_winning_ending |-> node_data.isWinningEnding,
     options |-> <<>>]

\* the entry names an identity that was guessed, not the child's
OptionEntryGuessedId(option, child_id) == [text |-> option.text, node_id |-> child_id + 1]

\* lines 242-245: the entry built for an option and its child
OptionEntry(option, child_id) == [text |-> option.text, node_id |-> child_id]

\* the entry is put in front
PayloadInsertFirst(options_payload, entry) == <<entry>> \o options_payload

\* line 242 appends the entry of a child twice
PayloadAppendTwice(options_payload, entry) == options_payload \o <<entry, entry>>

\* line 242: options_payload.append
PayloadAppend(options_payload, entry) == Append(options_payload, entry)

Write(op, id) == [op |-> op, id |-> id]

Frame(node_data, id) ==
    [node_data |-> node_data, id |-> id, i |-> 1, options_payload |-> <<>>]

Top == stack[Len(stack)]
Pop(s) == SubSeq(s, 1, Len(s) - 1)
SetTop(s, f) == [s EXCEPT ![Len(s)] = f]

\* lines 149-158: insert the Story row, then call _process_story_node on the
\* root node
PersistStory ==
    /\ pc = "persist"
    /\ story_rows' = Append(story_rows, StoryRow(Len(story_rows) + 1, story_structure.title))
    /\ writes' = Append(writes, Write("insert_story", Len(story_rows) + 1))
    /\ arg' = [node_data |-> story_structure.rootNode, is_root |-> TRUE]
    /\ pc' = "enter"
    /\ UNCHANGED <<calls, raised, loopVars, node_rows, committed, stack, entered,
                   repair_text>>

\* line 189 commits instead of flushing
EnterNodeCommitting ==
    /\ pc = "enter"
    /\ LET id == Len(node_rows) + 1 IN
       /\ node_rows' = Append(node_rows,
                              NodeRow(id, story_rows[Len(story_rows)].id,
                                      arg.node_data, arg.is_root))
       /\ writes' = writes \o <<Write("insert_node", id), Write("commit", committed + 1)>>
       /\ committed' = committed + 1
       /\ stack' = Append(stack, Frame(arg.node_data, id))
       /\ entered' = Append(entered,
                            [node_data |-> arg.node_data,
                             parent |-> IF stack = <<>> THEN 0 ELSE Top.id,
                             index |-> IF stack = <<>> THEN 0 ELSE Top.i])
    /\ pc' = "options"
    /\ UNCHANGED <<calls, raised, loopVars, story_rows, arg, repair_text>>

\* line 247 moved before the loop of line 194: the options list is written
\* when the node is inserted
EnterNodeWritingOptions ==
    /\ pc = "enter"
    /\ LET id == Len(node_rows) + 1 IN
       /\ node_rows' = Append(node_rows,
                              NodeRow(id, story_rows[Len(story_rows)].id,
                                      arg.node_data, arg.is_root))
       /\ writes' = writes \o <<Write("insert_node", id), Write("set_options", id)>>
       /\ stack' = Append(stack, Frame(arg.node_data, id))
       /\ entered' = Append(entered,
                            [node_data |-> arg.node_data,
                             parent |-> IF stack = <<>> THEN 0 ELSE Top.id,
                             index |-> IF stack = <<>> THEN 0 ELSE Top.i])
    /\ pc' = "options"
    /\ UNCHANGED <<calls, raised, loopVars, story_rows, committed, arg, repair_text>>

\* lines 179-189: insert the row of node_data and flush it
EnterNode ==
    /\ pc = "enter"
    /\ LET id == Len(node_rows) + 1 IN
       /\ node_rows' = Append(node_rows,
                              NodeRow(id, story_rows[Len(story_rows)].id,
                                      arg.node_data, arg.is_root))
       /\ writes' = Append(writes, Write("insert_node", id))
       /\ stack' = Append(stack, Frame(arg.node_data, id))
       /\ entered' = Append(entered,
                            [node_data |-> arg.node_data,
                             parent |-> IF stack = <<>> THEN 0 ELSE Top.id,
                             index |-> IF stack = <<>> THEN 0 ELSE Top.i])
    /\ pc' = "options"
    /\ UNCHANGED <<calls, raised, loopVars, story_rows, committed, arg, repair_text>>

\* the test of line 191 missing: the options of an ending are processed too
ResolveOptionOfEnding ==
    /\ pc = "options"
    /\ Top.i <= Len(Top.node_data.options)
    /\ LET next_node_data == Top.node_data.options[Top.i].nextNode IN
       IF next_node_data.valid
       THEN /\ arg' = [node_data |-> next_node_data, is_root |-> FALSE]
            /\ pc' = "enter"
       ELSE /\ pc' = "node_repair"
            /\ UNCHANGED arg
    /\ UNCHANGED <<calls, raised, loopVars, dbVars, stack, entered, repair_text>>

\* line 239 passes is_root=True to the recursive call
ResolveOptionAsRoot ==
    /\ pc = "options"
    /\ ~node_rows[Top.id].is_ending
    /\ Top.i <= Len(Top.node_data.options)
    /\ LET next_node_data == Top.node_data.options[Top.i].nextNode IN
       IF next_node_data.valid
       THEN /\ arg' = [node_data |-> next_node_data, is_root |-> TRUE]
            /\ pc' = "enter"
       ELSE /\ pc' = "node_repair"
            /\ UNCHANGED arg
    /\ UNCHANGED <<calls, raised, loopVars, dbVars, stack, entered, repair_text>>

\* lines 191-199: take the next option of the node on top and validate its
\* embedded child
ResolveOption ==
    /\ pc = "options"
    /\ ~node_rows[Top.id].is_ending
    /\ Top.i <= Len(Top.node_data.options)
    /\ LET next_node_data == Top.node_data.options[Top.i].nextNode IN
       IF next_node_data.valid
       THEN \* line 199 succeeds, line 235
            /\ arg' = [node_data |-> next_node_data, is_root |-> FALSE]
            /\ pc' = "enter"
       ELSE \* line 200
            /\ pc' = "node_repair"
            /\ UNCHANGED arg
    /\ UNCHANGED <<calls, raised, loopVars, dbVars, stack, entered, repair_text>>

\* lines 202-225: the node repair call; a failure of llm.invoke leaves
\* _process_story_node and generate_story
NodeRepairInvoke ==
    /\ pc = "node_repair"
    /\ LET next_node_data == Top.node_data.options[Top.i].nextNode
           prompt == node_repair_prompt(next_node_data) IN
       \/ /\ calls' = Append(calls, Call(224, attempt, prompt, "transport"))
          /\ raised' = Raise("transport", Error("transport", attempt, NextCall))
          /\ pc' = "raised"
          /\ UNCHANGED repair_text
       \/ /\ repair_text' \in NodeResponses(NextCall, next_node_data)
          /\ calls' = Append(calls, Call(224, attempt, prompt, NodeResultOf(repair_text')))
          /\ pc' = "node_reparse"
          /\ UNCHANGED raised
    /\ UNCHANGED <<loopVars, dbVars, stack, arg, entered>>

\* a failed node repair is tried again instead of raising
NodeReparseRetrying ==
    /\ pc = "node_reparse"
    /\ IF repair_text.parsed
       THEN /\ arg' = [node_data |-> repair_text.node, is_root |-> FALSE]
            /\ pc' = "enter"
            /\ UNCHANGED raised
       ELSE /\ pc' = "node_repair"
            /\ UNCHANGED <<raised, arg>>
    /\ UNCHANGED <<calls, loopVars, dbVars, stack, entered, repair_text>>

\* lines 227-240: parse the repaired node; on failure raise, else recurse
NodeReparse ==
    /\ pc = "node_reparse"
    /\ IF repair_text.parsed
       THEN /\ arg' = [node_data |-> repair_text.node, is_root |-> FALSE]
            /\ pc' = "enter"
            /\ UNCHANGED raised
       ELSE /\ raised' = Raise("node_repair", Error("parse", attempt, repair_text.id))
            /\ pc' = "raised"
            /\ UNCHANGED arg
    /\ UNCHANGED <<calls, loopVars, dbVars, stack, entered, repair_text>>

\* lines 247-250 and, in the caller, lines 242-245 (or line 167 for the
\* root): store the options of the node on top, return it, and let the
\* caller append the option entry
ReturnNode ==
    /\ pc = "options"
    /\ node_rows[Top.id].is_ending \/ Top.i > Len(Top.node_data.options)
    /\ IF node_rows[Top.id].is_ending
       THEN UNCHANGED <<node_rows, writes>>
       ELSE /\ node_rows' = [node_rows EXCEPT ![Top.id].options = Top.options_payload]
            /\ writes' = Append(writes, Write("set_options", Top.id))
    /\ IF Len(stack) = 1
       THEN /\ stack' = <<>>
            /\ pc' = "commit"
       ELSE LET caller == stack[Len(stack) - 1]
                option == caller.node_data.options[caller.i] IN
            /\ stack' = SetTop(Pop(stack),
                               [caller EXCEPT
                                  !.options_payload =
                                      PayloadAppend(@, OptionEntry(option, Top.id)),
                                  !.i = @ + 1])
            /\ pc' = "options"
    /\ UNCHANGED <<calls, raised, loopVars, story_rows, committed, arg, entered,
                   repair_text>>

\* lines 167-168
Commit ==
    /\ pc = "commit"
    /\ committed' = committed + 1
    /\ writes' = Append(writes, Write("commit", committed + 1))
    /\ pc' = "returned"
    /\ UNCHANGED <<calls, raised, loopVars, story_rows, node_rows, matVars>>

----------------------------------------------------------------------------
Next ==
    \/ AttemptInvoke
    \/ BudgetExhausted
    \/ Parse
    \/ RootRepairInvoke
    \/ RootReparse
    \/ DocRepairInvoke
    \/ PersistStory
    \/ EnterNode
    \/ ResolveOption
    \/ NodeRepairInvoke
    \/ NodeReparse
    \/ ReturnNode
    \/ Commit

Spec == Init /\ [][Next]_vars

\* generate_story runs to completion: it is one synchronous call
FairSpec == Spec /\ WF_vars(Next)

Terminated == pc \in {"returned", "raised"}

TypeOK ==
    /\ pc \in {"loop", "parse", "root_repair", "root_reparse", "doc_repair",
               "persist", "enter", "options", "node_repair", "node_reparse",
               "commit", "returned", "raised"}
    /\ attempt \in 0..MAX_RETRIES
    /\ committed \in 0..1
    /\ Len(story_rows) <= 1

----------------------------------------------------------------------------
(* Properties *)

Max(S) == CHOOSE x \in S : \A y \in S : y <= x

LoopSites == {52, 89, 136}
OpeningCalls == {i \in DOMAIN calls : calls[i].site = 52}
RepairPromptCalls ==
    {i \in DOMAIN calls : calls[i].prompt.kind \in {"root_repair", "doc_repair"}}
TransportFailures ==
    {i \in DOMAIN calls : calls[i].site \in LoopSites /\ calls[i].result = "transport"}

\* no call failed and no text the loop parsed was a valid document (the
\* texts the loop never parses may be anything)
AllInvalid ==
    \A i \in DOMAIN calls : calls[i].result \in {"unparsable", "bad_root", "unread"}

Exhausted == pc = "raised" /\ raised.type = "exhausted"

\* C1: when every response of the generation client is invalid,
\* generate_story makes exactly MAX_RETRIES attempts (one opening call each),
\* then raises the budget-exhausted failure; it stores and returns no story,
\* and it does terminate.
C1_BudgetTermination ==
    /\ [](AllInvalid =>
            /\ pc # "returned"
            /\ story_rows = <<>>
            /\ Cardinality(OpeningCalls) <= MAX_RETRIES
            /\ (pc = "raised" =>
                  /\ raised.type = "exhausted"
                  /\ attempt = MAX_RETRIES
                  /\ Cardinality(OpeningCalls) = MAX_RETRIES
                  /\ \A a \in 0..(MAX_RETRIES - 1) :
                        \E i \in OpeningCalls : calls[i].attempt = a))
    /\ <>(~AllInvalid \/ Exhausted)

C1_Witness ==
    /\ Exhausted
    /\ AllInvalid
    /\ Cardinality(OpeningCalls) = MAX_RETRIES
    /\ \E i \in DOMAIN calls : calls[i].result = "bad_root"
    /\ \E i \in DOMAIN calls : calls[i].result = "unparsable"

\* C2: once a repair prompt has been built, the call that opens every later
\* attempt (line 52) sends the most recent repair prompt, never the original
\* instructions.
C2_RepairPromptSupersedes ==
    \A i \in OpeningCalls :
        LET before == {j \in RepairPromptCalls : j < i} IN
        before # {} => calls[i].prompt = calls[Max(before)].prompt

\* C3: a transport failure of a call of the repair loop is counted as one
\* failed attempt: while budget remains the loop goes on (generate_story does
\* not end with that failure), and no repair prompt is built from it.
C3_TransportCountedAsAttempt ==
    \A i \in TransportFailures :
        /\ calls[i].attempt + 1 < MAX_RETRIES =>
              ~(pc = "raised" /\ raised.type = "transport" /\ raised.context.call = i)
        /\ \A j \in RepairPromptCalls :
              ~(calls[j].prompt.error.kind = "transport" /\ calls[j].prompt.error.call = i)

----------------------------------------------------------------------------
(* Materialization *)

Rows == DOMAIN node_rows

\* the call of _process_story_node that built row id has returned
Finished(id) == \A k \in DOMAIN stack : stack[k].id # id

\* row id holds the fields of the node it was built from and, for a
\* non-ending node, one option entry per input option, the i-th naming the
\* row built for the i-th option's child
Materialized(id) ==
    LET nd == entered[id].node_data
        row == node_rows[id] IN
    /\ row.content = nd.content
    /\ row.is_ending = nd.isEnding
    /\ row.is_winning_ending = nd.isWinningEnding
    /\ IF nd.isEnding THEN row.options = <<>>
       ELSE /\ Len(row.options) = Len(nd.options)
            /\ \A i \in DOMAIN row.options :
                  LET c == row.options[i].node_id IN
                  /\ row.options[i].text = nd.options[i].text
                  /\ c \in DOMAIN entered
                  /\ entered[c].parent = id
                  /\ entered[c].index = i

WholeTree ==
    /\ Len(node_rows) >= 1
    /\ entered[1].node_data = story_structure.rootNode
    /\ \A id \in Rows : Materialized(id)

\* C4: db.commit() happens only once the whole tree is materialized (every
\* node inserted, the options of every non-ending node written); when
\* generate_story ends with an exception, nothing was committed.
C4_AllOrNothing ==
    /\ committed > 0 =>
          /\ committed = 1
          /\ raised = NoRaise
          /\ stack = <<>>
          /\ Len(story_rows) = 1
          /\ WholeTree
    /\ pc = "raised" => committed = 0

C4_Witness ==
    /\ pc = "returned"
    /\ committed = 1
    /\ Len(node_rows) >= 4
    /\ \E id \in Rows : entered[id].node_data.content.o = "fix"

\* C5: in every state of the storage, also after materialization aborted
\* mid-tree, every node_id in a stored options list is the id of an inserted
\* node row of the same story.
C5_NoDanglingReference ==
    \A id \in Rows :
        \A k \in DOMAIN node_rows[id].options :
            LET c == node_rows[id].options[k].node_id IN
            /\ c \in Rows
            /\ node_rows[c].id = c
            /\ node_rows[c].story_id = node_rows[id].story_id

C5_Witness ==
    /\ pc = "raised"
    /\ raised.type \in {"node_repair", "transport"}
    /\ \E id \in Rows : node_rows[id].options # <<>>
    /\ \E id \in Rows : ~Finished(id)

\* C6: the stored options list of every non-ending node whose
\* materialization has completed has the length of the node's input options,
\* and its i-th entry holds the i-th option's text and the id of the row
\* built for the i-th option's child.
C6_OrderPreservation ==
    \A id \in Rows :
        LET nd == entered[id].node_data
            row == node_rows[id] IN
        (Finished(id) /\ ~nd.isEnding) =>
            /\ Len(row.options) = Len(nd.options)
            /\ \A i \in DOMAIN row.options :
                  /\ row.options[i].text = nd.options[i].text
                  /\ row.options[i].node_id \in DOMAIN entered
                  /\ entered[row.options[i].node_id].parent = id
                  /\ entered[row.options[i].node_id].index = i

C6_Witness ==
    \E id \in Rows :
        /\ Finished(id)
        /\ Len(node_rows[id].options) >= 3
        /\ \E i \in DOMAIN node_rows[id].options :
              entered[node_rows[id].options[i].node_id].node_data.content.o = "fix"

NodeRepairCalls == {k \in DOMAIN calls : calls[k].site = 224}
NodeRepairCallsFor(child) ==
    {k \in NodeRepairCalls : calls[k].prompt.node = child.content}

\* the walk has got past line 224 for option i of the node of row id
Reached(id, i) ==
    IF Finished(id) THEN TRUE
    ELSE LET k == CHOOSE k \in DOMAIN stack : stack[k].id = id IN
         \/ i < stack[k].i
         \/ /\ i = stack[k].i
            /\ k < Len(stack) \/ pc \in {"node_reparse", "enter", "raised"}

\* C7: an embedded child that fails node validation gets exactly one node
\* repair call (and only such children get one); if the repaired text does
\* not parse, generate_story ends with the node-repair error, without a
\* second call for that child and with nothing committed.
C7_SingleNodeRepair ==
    /\ \A id \in Rows :
          LET nd == entered[id].node_data IN
          ~nd.isEnding =>
              \A i \in DOMAIN nd.options :
                  LET child == nd.options[i].nextNode IN
                  ~child.valid =>
                      Cardinality(NodeRepairCallsFor(child)) =
                          IF Reached(id, i) THEN 1 ELSE 0
    /\ \A k \in NodeRepairCalls :
          \E id \in Rows :
              \E i \in DOMAIN entered[id].node_data.options :
                  LET child == entered[id].node_data.options[i].nextNode IN
                  ~child.valid /\ child.content = calls[k].prompt.node
    /\ (repair_text.id > 0 /\ ~repair_text.parsed /\ pc # "node_reparse") =>
          /\ pc = "raised"
          /\ raised = Raise("node_repair", Error("parse", attempt, repair_text.id))
          /\ Len(calls) = repair_text.id
          /\ committed = 0

C7_Witness ==
    /\ pc = "raised"
    /\ raised.type = "node_repair"
    /\ Cardinality(NodeRepairCalls) >= 2
    /\ Len(node_rows) >= 3

ValidationErrors == {k \in DOMAIN errors : errors[k].kind \in {"parse", "root"}}

TreeShapeOK(root) ==
    \A q \in Paths(root) :
        LET n == At(root, q) IN
        n.valid => IF n.isEnding THEN n.options = <<>> ELSE Len(n.options) \in 2..3

\* C9: a document with a non-ending node of fewer than 2 or more than 3
\* options, or an ending node with options, is rejected before any storage
\* write: once accepted by the loop it causes no write and is never returned.
C9_RejectsBeforeStorage ==
    (RootCheckPasses(story_structure) /\ ~TreeShapeOK(story_structure.rootNode)) =>
        /\ writes = <<>>
        /\ pc # "returned"

\* C10: for a document all of whose nodes satisfy the node contract, a
\* successful materialization stores exactly one row per node of the tree,
\* each with the content, is_ending and is_winning_ending of its node, and
\* the entries of one options list name pairwise distinct rows.
C10_VisitsEveryNodeOnce ==
    LET root == story_structure.rootNode IN
    (pc = "returned" /\ \A q \in Paths(root) : NodeSpecValid(At(root, q))) =>
        /\ Len(node_rows) = NodeCount(root)
        /\ \A q \in Paths(root) :
              LET n == At(root, q) IN
              \E id \in Rows :
                  /\ node_rows[id].content = n.content
                  /\ node_rows[id].is_ending = n.isEnding
                  /\ node_rows[id].is_winning_ending = n.isWinningEnding
                  /\ Len(node_rows[id].options) = Len(n.options)
                  /\ \A other \in Rows :
                        node_rows[other].content = n.content => other = id
        /\ \A id \in Rows :
              \A i, j \in DOMAIN node_rows[id].options :
                  i # j => node_rows[id].options[i].node_id
                             # node_rows[id].options[j].node_id

C10_Witness ==
    LET root == story_structure.rootNode IN
    /\ pc = "returned"
    /\ \A q \in Paths(root) : NodeSpecValid(At(root, q))
    /\ Len(node_rows) = 5
    /\ \E id \in Rows : node_rows[id].is_winning_ending
    /\ \E id \in Rows : node_rows[id].is_ending /\ ~node_rows[id].is_winning_ending

----------------------------------------------------------------------------
(* Persisted structure *)

\* the option entries (row, position) that name row id
Refs(id) ==
    {e \in Rows \X (1..Len(node_rows)) :
        /\ e[2] \in DOMAIN node_rows[e[1]].options
        /\ node_rows[e[1]].options[e[2]].node_id = id}

Children(id) ==
    {node_rows[id].options[k].node_id : k \in DOMAIN node_rows[id].options}

RECURSIVE ReachableFrom(_, _)
ReachableFrom(S, n) ==
    IF n = 0 THEN S
    ELSE ReachableFrom(S \cup UNION {Children(x) : x \in S \cap Rows}, n - 1)

\* the rows reachable from row id by following one or more option entries
Descendants(id) == ReachableFrom(Children(id), Len(node_rows))

\* C11: the rows of a committed story form a tree: every row but the root is
\* named by exactly one option entry, an entry of another row of the same
\* story; the root is named by none; no row is reachable from itself.
C11_PersistedTree ==
    committed = 1 =>
        /\ \E id \in Rows : node_rows[id].is_root
        /\ \A id \in Rows :
              /\ node_rows[id].story_id = story_rows[1].id
              /\ Cardinality(Refs(id)) = IF node_rows[id].is_root THEN 0 ELSE 1
              /\ \A e \in Refs(id) : e[1] # id
              /\ id \notin Descendants(id)

C11_Witness ==
    /\ committed = 1
    /\ Len(node_rows) >= 5
    /\ \E id \in Rows :
          /\ ~node_rows[id].is_root
          /\ Len(node_rows[id].options) >= 2
    /\ \E id \in Rows : entered[id].node_data.content.o = "fix"

RootRows == {id \in Rows : node_rows[id].is_root}

\* C12: a returned story has exactly one row with is_root set, the row built
\* from the root node of the accepted document; in every state, the rows
\* built by a recursive call of _process_story_node have is_root unset.
C12_SingleRootRow ==
    /\ pc = "returned" =>
          /\ Cardinality(RootRows) = 1
          /\ \A id \in RootRows :
                /\ entered[id].parent = 0
                /\ entered[id].node_data = story_structure.rootNode
                /\ node_rows[id].content = story_structure.rootNode.content
                /\ node_rows[id].story_id = story_rows[1].id
    /\ \A id \in Rows : entered[id].parent # 0 => ~node_rows[id].is_root

C12_Witness ==
    /\ pc = "returned"
    /\ Len(node_rows) >= 4
    /\ Cardinality(RootRows) = 1
    /\ \E id \in Rows : entered[id].parent # 0 /\ node_rows[id].options # <<>>
    /\ \E id \in Rows : entered[id].node_data.content.o = "fix"

----------------------------------------------------------------------------
(* Document repair loop *)

\* C13: when the loop is about to start another attempt (or to give up), the
\* text the generation client returned last has been passed to parser.parse,
\* and it is not a valid document: a valid document returned to a repair
\* prompt is accepted, not discarded.
C13_ValidatedBeforeNextCall ==
    (pc = "loop" /\ response_text.id > 0) =>
        /\ calls[response_text.id].result # "unread"
        /\ ResultOf(response_text) # "valid"

\* C14: every document-level repair prompt built after a failed validation
\* (lines 66-82 and 110-128) quotes both the validation error and the raw
\* text that failed validation.
C14_RepairPromptQuotesErrorAndText ==
    \A i \in RepairPromptCalls :
        LET prompt == calls[i].prompt IN
        prompt.error.kind \in {"parse", "root"} =>
            /\ \E k \in DOMAIN errors : errors[k] = prompt.error
            /\ prompt.previous > 0
            /\ prompt.previous = prompt.error.call

RootRepairCalls == {j \in DOMAIN calls : calls[j].site = 89}
BadRootOpenings == {i \in OpeningCalls : calls[i].result = "bad_root"}

\* the text of call j is still waiting for parser.parse
Pending(j) == j = Len(calls) /\ pc \in {"parse", "root_reparse"}

\* the loop was left with the document returned to call j
AcceptedFrom(j) ==
    /\ pc \notin {"loop", "parse", "root_repair", "root_reparse", "doc_repair"}
    /\ ~Exhausted
    /\ response_text.id = j
    /\ story_structure = response_text.doc
    /\ RootCheckPasses(story_structure)
    /\ \A k \in DOMAIN calls : k > j => calls[k].site \notin LoopSites

\* C15: an attempt whose document parses but fails the root check makes
\* exactly one inline root repair call (line 89), with the root repair prompt
\* built from that failure, and no other attempt makes one.  If the text
\* returned to it parses and passes the root check, the loop is left with
\* that repaired document; if the text does not, the failure is recorded, the
\* attempt is over, and the next call of the loop, if any, opens the next
\* attempt (line 52).
C15_SingleInlineRootRepair ==
    /\ \A i \in BadRootOpenings :
          LET inl == {j \in RootRepairCalls : calls[j].attempt = calls[i].attempt} IN
          IF i = Len(calls) /\ pc \in {"parse", "root_repair"}
          THEN inl = {}
          ELSE /\ inl = {i + 1}
               /\ calls[i + 1].prompt.kind = "root_repair"
               /\ calls[i + 1].prompt.error = Error("root", calls[i].attempt, i)
               /\ calls[i + 1].prompt.previous = i
    /\ \A j \in RootRepairCalls : j - 1 \in BadRootOpenings
    /\ \A j \in RootRepairCalls :
          ~Pending(j) =>
              CASE calls[j].result = "valid" -> AcceptedFrom(j)
                [] calls[j].result \in {"unparsable", "bad_root"} ->
                      /\ attempt = calls[j].attempt + 1 \/ j < Len(calls)
                      /\ \E k \in DOMAIN errors :
                            /\ errors[k].call = j
                            /\ errors[k].attempt = calls[j].attempt
                            /\ errors[k].kind \in {"parse", "root"}
                      /\ j < Len(calls) =>
                            /\ calls[j + 1].site = 52
                            /\ calls[j + 1].attempt = calls[j].attempt + 1
                [] OTHER -> TRUE

C15_Witness ==
    /\ pc = "persist"
    /\ \E j \in RootRepairCalls : calls[j].result = "valid" /\ AcceptedFrom(j)
    /\ \E j \in RootRepairCalls : calls[j].result = "bad_root"
    /\ \E j \in RootRepairCalls : calls[j].result = "unparsable"

----------------------------------------------------------------------------
(* Order of the storage writes *)

RECURSIVE IsAncestor(_, _)
\* row a was built by a call of _process_story_node that encloses the call
\* that built row d
IsAncestor(a, d) ==
    LET p == entered[d].parent IN
    p # 0 /\ (p = a \/ IsAncestor(a, p))

Subtree(c) == {c} \cup {d \in Rows : IsAncestor(c, d)}

Inserts(id) == {k \in DOMAIN writes : writes[k] = Write("insert_node", id)}
OptionWrites(id) == {k \in DOMAIN writes : writes[k] = Write("set_options", id)}
WritesOf(S) == UNION {Inserts(id) \cup OptionWrites(id) : id \in S}

\* C16: the writes of materialization are depth-first, left to right: the
\* insert of a row precedes the insert of each of its descendants; every
\* write of the subtree of option i precedes every write of the subtree of a
\* later option of the same node, and that subtree is complete by then; the
\* options list of a row is written once, after every insert and every
\* options write of its descendants.
C16_DepthFirstWrites ==
    /\ \A id \in Rows :
          /\ Cardinality(Inserts(id)) = 1
          /\ Cardinality(OptionWrites(id)) <= 1
    /\ \A a, d \in Rows :
          IsAncestor(a, d) =>
              /\ \A ka \in Inserts(a) : \A kd \in Inserts(d) : ka < kd
              /\ \A ks \in OptionWrites(a) :
                    /\ \A kd \in Inserts(d) : kd < ks
                    /\ \A kd \in OptionWrites(d) : kd < ks
                    /\ Finished(d)
                    /\ ~node_rows[d].is_ending => OptionWrites(d) # {}
    /\ \A c1, c2 \in Rows :
          (/\ entered[c1].parent # 0
           /\ entered[c1].parent = entered[c2].parent
           /\ entered[c1].index < entered[c2].index) =>
              /\ \A k1 \in WritesOf(Subtree(c1)) :
                    \A k2 \in WritesOf(Subtree(c2)) : k1 < k2
              /\ \A d \in Subtree(c1) :
                    /\ Finished(d)
                    /\ ~node_rows[d].is_ending => OptionWrites(d) # {}

C16_Witness ==
    /\ pc = "returned"
    /\ \E c1, c2 \in Rows :
          /\ entered[c1].parent = 1
          /\ entered[c2].parent = 1
          /\ entered[c1].index < entered[c2].index
          /\ OptionWrites(c1) # {}
          /\ Cardinality(Subtree(c1)) >= 3
    /\ OptionWrites(1) # {}

\* C17: a row built from a node whose isEnding is true keeps an empty stored
\* options list, whatever options the node carries: its options list is never
\* written, no row is built for a child of it, no option of it is taken up
\* and no node repair call is made for a child of it.
C17_EndingStopsRecursion ==
    \A id \in Rows :
        LET nd == entered[id].node_data IN
        nd.isEnding =>
            /\ node_rows[id].is_ending
            /\ node_rows[id].options = <<>>
            /\ Cardinality(Inserts(id)) = 1
            /\ OptionWrites(id) = {}
            /\ \A d \in Rows : entered[d].parent # id
            /\ \A k \in DOMAIN stack :
                  stack[k].id = id =>
                      /\ k = Len(stack)
                      /\ stack[k].i = 1
                      /\ stack[k].options_payload = <<>>
                      /\ pc \in {"options", "raised"}
            /\ \A i \in DOMAIN nd.options :
                  NodeRepairCallsFor(nd.options[i].nextNode) = {}

C17_Witness ==
    /\ pc = "returned"
    /\ \E id \in Rows :
          LET nd == entered[id].node_data IN
          /\ nd.isEnding
          /\ nd.options # <<>>
          /\ ~nd.options[1].nextNode.valid
          /\ entered[id].parent # 0
          /\ Finished(id)

----------------------------------------------------------------------------
(* Frame of the document repair loop *)

InLoop == pc \in {"loop", "parse", "root_repair", "root_reparse", "doc_repair"}

StorageUntouched ==
    /\ writes = <<>>
    /\ story_rows = <<>>
    /\ node_rows = <<>>
    /\ committed = 0

\* generate_story ended inside the loop: budget exhaustion, or a failure of
\* llm.invoke at line 52 or 136
EndedInLoop ==
    /\ pc = "raised"
    /\ \/ raised.type = "exhausted"
       \/ raised.type = "transport" /\ calls[Len(calls)].site \in LoopSites

\* C18: the document repair loop writes nothing to storage: while the loop
\* runs and when generate_story ends in it (budget exhaustion included) no
\* write has been issued and no story or node row exists; the first write
\* comes after a document has been accepted.
C18_LoopLeavesStorageUnchanged ==
    /\ (InLoop \/ EndedInLoop) => StorageUntouched
    /\ ~StorageUntouched =>
          /\ RootCheckPasses(story_structure)
          /\ story_structure = response_text.doc
          /\ writes[1] = Write("insert_story", 1)

C18_Witness ==
    /\ Exhausted
    /\ StorageUntouched
    /\ Len(calls) = 2 * MAX_RETRIES
    /\ \E i \in DOMAIN calls : calls[i].site = 89 /\ calls[i].result = "bad_root"
    /\ \E i \in DOMAIN calls : calls[i].site = 136

LoopCalls == {i \in DOMAIN calls : calls[i].site \in LoopSites}

\* C19: the loop makes at least one and at most 2 * MAX_RETRIES calls of the
\* generation client, at most two in one attempt, and none after a document
\* was accepted: from the first node repair call on, every call is a node
\* repair, and no option gets more than one.
C19_CallBudget ==
    /\ (pc # "loop" \/ attempt > 0) => LoopCalls # {}
    /\ Cardinality(LoopCalls) <= 2 * MAX_RETRIES
    /\ \A a \in 0..(MAX_RETRIES - 1) :
          Cardinality({i \in LoopCalls : calls[i].attempt = a}) <= 2
    /\ ~(InLoop \/ EndedInLoop) =>
          \A i \in DOMAIN calls : i > response_text.id => calls[i].site = 224
    /\ \A k1, k2 \in NodeRepairCalls :
          calls[k1].prompt.node = calls[k2].prompt.node => k1 = k2

====
